---- MODULE Spec2Model ----
(***************************************************************************)
(* Model of the access-decision gate of the wish git server (main.go):    *)
(* AuthRepo = isValidRepoName, isKeyAuthorized, os.Stat, and               *)
(* createBareRepoWithHook under repoMutex.  Every concurrent SSH session   *)
(* is a caller; a caller's AuthRepo call is split where it touches state   *)
(* shared with other callers (the authority, the filesystem, repoMutex).   *)
(* Strings are sequences of one-character strings.                         *)
(***************************************************************************)
EXTENDS Integers, Sequences, FiniteSets, TLC

\* ------------------------------------------------------------------ bounds
NumCallers == 2
MaxCalls == 2

Callers == 1..NumCallers

\* ------------------------------------------------------- program constants
MaxRepoNameLen == 100

\* config.RepoDir, as a list of path components (default "repos")
RepoDir == << <<"r","e","p","o","s">> >>

NoAccess == "NoAccess"
ReadWriteAccess == "ReadWriteAccess"

\* ------------------------------------------------------------ pure helpers
Lower == {"a","b","c","d","e","f","g","h","i","j","k","l","m",
          "n","o","p","q","r","s","t","u","v","w","x","y","z"}
Upper == {"A","B","C","D","E","F","G","H","I","J","K","L","M",
          "N","O","P","Q","R","S","T","U","V","W","X","Y","Z"}
Digit == {"0","1","2","3","4","5","6","7","8","9"}

\* ^[a-zA-Z0-9._-]+$ : non-empty, every character in the class
repoNameRegex(s) ==
    /\ Len(s) >= 1
    /\ \A i \in 1..Len(s) : s[i] \in Lower \cup Upper \cup Digit \cup {".", "_", "-"}

\* strings.Contains(s, sub)
Contains(s, sub) ==
    \E i \in 1..(Len(s) - Len(sub) + 1) : SubSeq(s, i, i + Len(sub) - 1) = sub

isValidRepoNameNoDotDotCheck(repo) ==
    IF Len(repo) = 0 \/ Len(repo) > MaxRepoNameLen THEN FALSE
    ELSE IF Contains(repo, <<"/">>) THEN FALSE
    ELSE repoNameRegex(repo)

isValidRepoName(repo) ==
    IF Len(repo) = 0 \/ Len(repo) > MaxRepoNameLen THEN FALSE
    ELSE IF Contains(repo, <<".", ".">>) \/ Contains(repo, <<"/">>) THEN FALSE
    ELSE repoNameRegex(repo)

\* strings.Split(s, sep) for a one-character separator: the fields between
\* separators, empty fields included
RECURSIVE SplitFrom(_, _, _, _)
SplitFrom(s, sep, i, cur) ==
    IF i > Len(s) THEN <<cur>>
    ELSE IF s[i] = sep THEN <<cur>> \o SplitFrom(s, sep, i + 1, <<>>)
    ELSE SplitFrom(s, sep, i + 1, Append(cur, s[i]))

Split(s, sep) == SplitFrom(s, sep, 1, <<>>)

\* strings.Join(parts, sep)
RECURSIVE Join(_, _)
Join(parts, sep) ==
    IF Len(parts) = 0 THEN <<>>
    ELSE IF Len(parts) = 1 THEN parts[1]
    ELSE parts[1] \o <<sep>> \o Join(Tail(parts), sep)

WhiteSpace == {" ", "\n", "\t", "\r"}

\* strings.TrimSpace
RECURSIVE TrimLeft(_)
TrimLeft(s) ==
    IF Len(s) > 0 /\ s[1] \in WhiteSpace THEN TrimLeft(Tail(s)) ELSE s

RECURSIVE TrimRight(_)
TrimRight(s) ==
    IF Len(s) > 0 /\ s[Len(s)] \in WhiteSpace
    THEN TrimRight(SubSeq(s, 1, Len(s) - 1)) ELSE s

TrimSpace(s) == TrimRight(TrimLeft(s))

\* filepath.Join(dir, name): the components of dir followed by those of
\* name, cleaned: empty and "." components dropped, ".." removing the
\* component before it, or kept where a relative path has none to remove
RECURSIVE CleanInto(_, _)
CleanInto(acc, comps) ==
    IF Len(comps) = 0 THEN acc
    ELSE LET h == Head(comps) IN
         IF h = <<>> \/ h = <<".">> THEN CleanInto(acc, Tail(comps))
         ELSE IF h = <<".", ".">>
              THEN CleanInto(IF Len(acc) > 0 /\ acc[Len(acc)] # <<".", ".">>
                             THEN SubSeq(acc, 1, Len(acc) - 1)
                             ELSE Append(acc, h), Tail(comps))
         ELSE CleanInto(Append(acc, h), Tail(comps))

filepathJoin(dir, name) == CleanInto(dir, Split(name, "/"))

\* gossh.MarshalAuthorizedKey(key): "<type> <base64>\n"
MarshalAuthorizedKey(key) == key.alg \o <<" ">> \o key.blob \o <<"\n">>

\* the loop over the decoded records: drop the last space-separated field
\* of the record's key, rejoin, trim, compare with the trimmed presented key
RecordMatches(authKey, marshaledKey) ==
    LET keyPart == Split(authKey, " ")
        keyWithoutUserIdentity == Join(SubSeq(keyPart, 1, Len(keyPart) - 1), " ")
    IN TrimSpace(keyWithoutUserIdentity) = TrimSpace(marshaledKey)

AnyRecordMatches(authKeys, marshaledKey) ==
    \E i \in 1..Len(authKeys) : RecordMatches(authKeys[i], marshaledKey)

\* What the HTTP exchange with the authority can produce: a transport error
\* or timeout, a non-200 status, an unreadable body, a body that is not a
\* JSON array of records, or 200 with the decoded records.
RespKinds == {"transport", "status", "read", "json", "ok"}

isKeyAuthorizedFailOpen(resp, key) ==
    IF resp.kind = "transport" THEN TRUE
    ELSE IF resp.kind \in {"status", "read", "json"} THEN FALSE
    ELSE AnyRecordMatches(resp.body, MarshalAuthorizedKey(key))

isKeyAuthorized(resp, key) ==
    IF resp.kind = "transport" THEN FALSE
    ELSE IF resp.kind = "status" THEN FALSE
    ELSE IF resp.kind = "read" THEN FALSE
    ELSE IF resp.kind = "json" THEN FALSE
    ELSE AnyRecordMatches(resp.body, MarshalAuthorizedKey(key))

\* ------------------------------------------------------------- the inputs
Key1 == [alg |-> <<"e">>, blob |-> <<"A", "A">>]
Key2 == [alg |-> <<"e">>, blob |-> <<"A", "B">>]
Keys == {Key1, Key2}

\* an authority record's key line: "<type> <base64>" and what follows it
KeyLine(key, rest) == key.alg \o <<" ">> \o key.blob \o rest

\* the record lists the authority may answer with
AuthorityLists ==
    { <<>>,
      << KeyLine(Key1, <<" ", "u">>) >>,
      << KeyLine(Key2, <<" ", "u">>), KeyLine(Key1, <<" ", "u">>) >>,
      << KeyLine(Key1, <<>>) >> }

\* the identifiers a session may ask for
RepoNames == { <<"a">>, <<".">>, <<"a", "/">>, <<".", ".">> }
ValidNames == { n \in RepoNames : isValidRepoName(n) }

\* the storage paths the valid identifiers map to, and the repository root
Paths == {RepoDir} \cup { filepathJoin(RepoDir, n) : n \in ValidNames }

\* An OpenSSH public-key line lists key when its first two
\* whitespace-separated fields are the key's type and base64 blob.
FieldsOf(line) == SelectSeq(Split(TrimSpace(line), " "), LAMBDA f : f # <<>>)

LineIsKey(line, key) ==
    LET f == FieldsOf(line)
    IN Len(f) >= 2 /\ f[1] = key.alg /\ f[2] = key.blob

Listed(records, key) == \E i \in 1..Len(records) : LineIsKey(records[i], key)

\* a cleaned relative path as a string: its components joined by "/"
PathString(comps) == IF Len(comps) = 0 THEN <<".">> ELSE Join(comps, "/")

\* config.BackupDir and config.InternalServer (the defaults)
BackupDir == <<"r", "e", "p", "o", "_", "b", "a", "c", "k", "u", "p", "s">>
InternalServer == <<"h", "t", "t", "p", ":", "/", "/", "0", ".", "0", ".", "0", ".", "0", ":", "3", "0", "0", "0">>

\* createPostReceiveHook's fmt.Sprintf: the three values rendered into the
\* script for a repository
hookScriptFor(repoName) ==
    [BACKUP_ROOT |-> PathString(CleanInto(<<>>, <<<<".", ".">>, <<".", ".">>>> \o Split(BackupDir, "/"))),
     REPO_NAME |-> repoName,
     UPLOAD_URL |-> InternalServer \o <<"/", "u", "p", "l", "o", "a", "d">>]

NoHook == [BACKUP_ROOT |-> <<>>, REPO_NAME |-> <<>>, UPLOAD_URL |-> <<>>]

\* ------------------------------------------------------------------ state
VARIABLES
    pc,         \* where each caller's AuthRepo call stands
    repo,       \* the call's repo argument
    key,        \* the call's key argument
    result,     \* the git.AccessLevel the call returned
    repoMutex,  \* 0 when free, else the caller holding it
    fs,         \* the repository tree: each path's state on disk
    obs,        \* per call: the operations it performed and what they saw
    execs,      \* per identifier: how often mkdir, git init, the hook write ran
    extFailed,  \* whether any filesystem or git operation has failed so far
    granted,    \* the (identifier, key) pairs some call returned ReadWriteAccess for
    calls,      \* AuthRepo calls started so far
    hookScript, \* per path: the values rendered into its installed post-receive hook
    hookRun,    \* one execution of an installed hook by git
    probe       \* a pure function applied to an input: [fn, arg, out]

vars == <<pc, repo, key, result, repoMutex, fs, obs, execs,
          extFailed, granted, calls, hookScript, hookRun, probe>>

\* path states: no entry, a plain directory, an initialized bare repository
\* without the post-receive hook, a bare repository with the hook
Absent == "Absent"
Dir == "Dir"
Bare == "Bare"
Ready == "Ready"

NoObs == [ops |-> <<>>, http |-> "none", matched |-> FALSE, listed |-> FALSE,
          stat |-> "none", saw |-> "none", busy |-> FALSE,
          stat2 |-> "none", saw2 |-> "none", failed |-> "none"]

NoExecs == [mkdir |-> 0, gitinit |-> 0, hook |-> 0]

\* no hook is executing; no function has been applied
NoRun == [status |-> "none"]
NoProbe == [fn |-> "none"]

repoPath(c) == filepathJoin(RepoDir, repo[c])

Init ==
    /\ pc = [c \in Callers |-> "idle"]
    /\ repo = [c \in Callers |-> <<>>]
    /\ key = [c \in Callers |-> Key1]
    /\ result = [c \in Callers |-> "none"]
    /\ repoMutex = 0
    /\ \E root \in {Absent, Dir} :
          fs = [p \in Paths |-> IF p = RepoDir THEN root ELSE Absent]
    /\ obs = [c \in Callers |-> NoObs]
    /\ execs = [n \in ValidNames |-> NoExecs]
    /\ extFailed = FALSE
    /\ granted = {}
    /\ calls = 0
    /\ hookScript = [p \in Paths |-> NoHook]
    /\ hookRun = NoRun
    /\ probe = NoProbe

\* ---------------------------------------------------------------- helpers
\* os.Stat(path): nil for an existing path, ErrNotExist for a missing one,
\* or another error (permission denied, I/O error) in either case
osStat(path) ==
    IF fs[path] = Absent THEN {"ENOENT", "EACCES"} ELSE {"nil", "EACCES"}

\* os.IsNotExist(err)
IsNotExistAnyError(err) == err # "nil"

IsNotExist(err) == err = "ENOENT"

\* AuthRepo returns: the call's decision
Decide(c, access) ==
    /\ pc' = [pc EXCEPT ![c] = "done"]
    /\ result' = [result EXCEPT ![c] = access]
    /\ granted' = IF access = ReadWriteAccess
                  THEN granted \cup {<<repo[c], key[c]>>} ELSE granted

\* the decision after createBareRepoWithHook returned err
accessAfterCreateIgnoringErr(err) == ReadWriteAccess

accessAfterCreate(err) == IF err # "nil" THEN NoAccess ELSE ReadWriteAccess

Did(c, op) == [obs EXCEPT ![c].ops = Append(@, op)]

Ran(c, op) == [execs EXCEPT ![repo[c]][op] = @ + 1]

\* another caller is inside the creation sequence for the same path, past
\* the directory creation and before the end of the hook installation
CreationUnderWay(c) ==
    \E d \in Callers \ {c} :
        pc[d] \in {"gitinit", "hook"} /\ repoPath(d) = repoPath(c)

\* ---------------------------------------------------------------- actions
\* A session asks for repo r with key k: AuthRepo is entered and the name
\* is validated first.
AuthRepoUnvalidated(c, r, k) ==
    /\ pc[c] = "idle"
    /\ calls < MaxCalls
    /\ calls' = calls + 1
    /\ repo' = [repo EXCEPT ![c] = r]
    /\ key' = [key EXCEPT ![c] = k]
    /\ pc' = [pc EXCEPT ![c] = "auth"]
    /\ UNCHANGED <<result, granted, repoMutex, fs, obs, execs, extFailed,
                   hookScript, hookRun, probe>>

AuthRepo(c, r, k) ==
    /\ pc[c] = "idle"
    /\ calls < MaxCalls
    /\ calls' = calls + 1
    /\ repo' = [repo EXCEPT ![c] = r]
    /\ key' = [key EXCEPT ![c] = k]
    /\ IF ~isValidRepoName(r)
       THEN /\ pc' = [pc EXCEPT ![c] = "done"]
            /\ result' = [result EXCEPT ![c] = NoAccess]
       ELSE /\ pc' = [pc EXCEPT ![c] = "auth"]
            /\ UNCHANGED result
    /\ UNCHANGED <<granted, repoMutex, fs, obs, execs, extFailed, hookScript,
                   hookRun, probe>>

\* the result of isKeyAuthorized(repo, key) for the response received
keyAuthorizedOrCached(c, resp) ==
    isKeyAuthorized(resp, key[c]) \/ <<repo[c], key[c]>> \in granted

keyAuthorized(c, resp) == isKeyAuthorized(resp, key[c])

\* if isKeyAuthorized(repo, key) { ... } return git.NoAccess
\* The GET to the authority fails in one of the ways of RespKinds or answers
\* with the records the authority holds for the identifier at that moment
\* (held), which may differ from one call to the next.  obs.listed records
\* whether the authority answered with a list naming the presented key.
Authorize(c) ==
    /\ pc[c] = "auth"
    /\ \E kind \in RespKinds, held \in AuthorityLists :
         LET resp == [kind |-> kind,
                      body |-> IF kind = "ok" THEN held ELSE <<>>]
         IN /\ (kind # "ok" => held = <<>>)
            /\ obs' = [obs EXCEPT ![c].ops = Append(@, "http"),
                                  ![c].http = kind,
                                  ![c].matched = (kind = "ok" /\
                                      AnyRecordMatches(resp.body, MarshalAuthorizedKey(key[c]))),
                                  ![c].listed = (kind = "ok" /\ Listed(held, key[c]))]
            /\ IF keyAuthorized(c, resp)
               THEN /\ pc' = [pc EXCEPT ![c] = "stat"]
                    /\ UNCHANGED <<result, granted>>
               ELSE Decide(c, NoAccess)
    /\ UNCHANGED <<repo, key, repoMutex, fs, execs, extFailed, calls, hookScript,
                   hookRun, probe>>

\* whether the existence check's error sends the call into creation
notExistAlways(err) == TRUE

notExist(err) == IsNotExist(err)

\* if _, err := os.Stat(repoPath); os.IsNotExist(err) { create } ; return ReadWriteAccess
StatRepoPath(c) ==
    /\ pc[c] = "stat"
    /\ \E err \in osStat(repoPath(c)) :
         /\ obs' = [obs EXCEPT ![c].ops = Append(@, "stat"),
                               ![c].stat = err,
                               ![c].saw = fs[repoPath(c)],
                               ![c].busy = CreationUnderWay(c)]
         /\ extFailed' = (extFailed \/ err = "EACCES")
         /\ IF notExist(err)
            THEN /\ pc' = [pc EXCEPT ![c] = "lock"]
                 /\ UNCHANGED <<result, granted>>
            ELSE Decide(c, ReadWriteAccess)
    /\ UNCHANGED <<repo, key, repoMutex, fs, execs, calls, hookScript, hookRun, probe>>

\* repoMutex.Lock() blocks until the mutex is free
mutexFreeAlways(c) == TRUE

mutexFree(c) == repoMutex = 0

Lock(c) ==
    /\ pc[c] = "lock"
    /\ mutexFree(c)
    /\ repoMutex' = c
    /\ pc' = [pc EXCEPT ![c] = "locked"]
    /\ obs' = Did(c, "lock")
    /\ UNCHANGED <<repo, key, result, granted, fs, execs, extFailed, calls,
                   hookScript, hookRun, probe>>

\* createBareRepoWithHook returns err: the deferred Unlock runs and AuthRepo
\* maps err to its decision
ReturnFromCreateUnlockOnSuccessOnly(c, err) ==
    /\ repoMutex' = IF err = "nil" THEN 0 ELSE repoMutex
    /\ Decide(c, accessAfterCreate(err))

ReturnFromCreate(c, err) ==
    /\ repoMutex' = 0
    /\ Decide(c, accessAfterCreate(err))

\* the check under the lock: the path is taken to exist unless Stat says
\* it does not
existsUnderLockNever(err) == FALSE

existsUnderLock(err) == ~IsNotExist(err)

StatUnderLock(c) ==
    /\ pc[c] = "locked"
    /\ \E err \in osStat(repoPath(c)) :
         /\ obs' = [obs EXCEPT ![c].ops = Append(@, "stat"),
                               ![c].stat2 = err,
                               ![c].saw2 = fs[repoPath(c)]]
         /\ extFailed' = (extFailed \/ err = "EACCES")
         /\ IF existsUnderLock(err)
            THEN ReturnFromCreate(c, "nil")
            ELSE /\ pc' = [pc EXCEPT ![c] = "mkdir"]
                 /\ UNCHANGED <<result, granted, repoMutex>>
    /\ UNCHANGED <<repo, key, fs, execs, calls, hookScript, hookRun, probe>>

\* os.MkdirAll(repoPath, 0755): creates the missing directories of the path,
\* the repository root included; a failure may leave the root created
MkdirAll(c) ==
    /\ pc[c] = "mkdir"
    /\ execs' = Ran(c, "mkdir")
    /\ \/ /\ fs' = [p \in Paths |->
                      IF p \in {RepoDir, repoPath(c)} /\ fs[p] = Absent
                      THEN Dir ELSE fs[p]]
          /\ obs' = Did(c, "mkdir")
          /\ pc' = [pc EXCEPT ![c] = "gitinit"]
          /\ UNCHANGED <<result, granted, repoMutex, extFailed>>
       \/ /\ \E rootMade \in BOOLEAN :
               fs' = [fs EXCEPT ![RepoDir] =
                         IF rootMade /\ @ = Absent /\ repoPath(c) # RepoDir
                         THEN Dir ELSE @]
          /\ obs' = [obs EXCEPT ![c].ops = Append(@, "mkdir"),
                                ![c].failed = "mkdir"]
          /\ extFailed' = TRUE
          /\ ReturnFromCreate(c, "failed to create directory")
    /\ UNCHANGED <<repo, key, calls, hookScript, hookRun, probe>>

\* exec.Command("git", "init", "--bare", repoPath).Run()
GitInitIgnoringFailure(c) ==
    /\ pc[c] = "gitinit"
    /\ execs' = Ran(c, "gitinit")
    /\ \/ /\ fs' = [fs EXCEPT ![repoPath(c)] = IF @ = Ready THEN Ready ELSE Bare]
          /\ obs' = Did(c, "gitinit")
          /\ UNCHANGED extFailed
       \/ /\ obs' = [obs EXCEPT ![c].ops = Append(@, "gitinit"),
                                ![c].failed = "gitinit"]
          /\ extFailed' = TRUE
          /\ UNCHANGED fs
    /\ pc' = [pc EXCEPT ![c] = "hook"]
    /\ UNCHANGED <<result, granted, repoMutex>>
    /\ UNCHANGED <<repo, key, calls, hookScript, hookRun, probe>>

GitInit(c) ==
    /\ pc[c] = "gitinit"
    /\ execs' = Ran(c, "gitinit")
    /\ \/ /\ fs' = [fs EXCEPT ![repoPath(c)] = IF @ = Ready THEN Ready ELSE Bare]
          /\ obs' = Did(c, "gitinit")
          /\ pc' = [pc EXCEPT ![c] = "hook"]
          /\ UNCHANGED <<result, granted, repoMutex, extFailed>>
       \/ /\ obs' = [obs EXCEPT ![c].ops = Append(@, "gitinit"),
                                ![c].failed = "gitinit"]
          /\ extFailed' = TRUE
          /\ ReturnFromCreate(c, "failed to initialize repository")
          /\ UNCHANGED fs
    /\ UNCHANGED <<repo, key, calls, hookScript, hookRun, probe>>

\* return createPostReceiveHook(repoPath, repoName): os.WriteFile of the
\* rendered script to hooks/post-receive
createPostReceiveHook(c) ==
    /\ pc[c] = "hook"
    /\ execs' = Ran(c, "hook")
    /\ \/ /\ fs' = [fs EXCEPT ![repoPath(c)] = IF @ \in {Bare, Ready} THEN Ready ELSE @]
          /\ hookScript' = [hookScript EXCEPT ![repoPath(c)] = hookScriptFor(repo[c])]
          /\ obs' = Did(c, "hook")
          /\ UNCHANGED extFailed
          /\ ReturnFromCreate(c, "nil")
       \/ /\ obs' = [obs EXCEPT ![c].ops = Append(@, "hook"),
                                ![c].failed = "hook"]
          /\ extFailed' = TRUE
          /\ ReturnFromCreate(c, "write failed")
          /\ UNCHANGED <<fs, hookScript>>
    /\ UNCHANGED <<repo, key, calls, hookRun, probe>>

\* the session has its decision; the caller is free for its next session
Return(c) ==
    /\ pc[c] = "done"
    /\ pc' = [pc EXCEPT ![c] = "idle"]
    /\ repo' = [repo EXCEPT ![c] = <<>>]
    /\ key' = [key EXCEPT ![c] = Key1]
    /\ result' = [result EXCEPT ![c] = "none"]
    /\ obs' = [obs EXCEPT ![c] = NoObs]
    /\ UNCHANGED <<granted, repoMutex, fs, execs, extFailed, calls, hookScript,
                   hookRun, probe>>

Next ==
    \/ \E c \in Callers, r \in RepoNames, k \in Keys : AuthRepo(c, r, k)
    \/ \E c \in Callers : Authorize(c)
    \/ \E c \in Callers : StatRepoPath(c)
    \/ \E c \in Callers : Lock(c)
    \/ \E c \in Callers : StatUnderLock(c)
    \/ \E c \in Callers : MkdirAll(c)
    \/ \E c \in Callers : GitInit(c)
    \/ \E c \in Callers : createPostReceiveHook(c)
    \/ \E c \in Callers : Return(c)

Spec == Init /\ [][Next]_vars

\* ----------------------------------------------------------------- claims
Returned(c) == pc[c] = "done"

Performed(c, op) == \E i \in 1..Len(obs[c].ops) : obs[c].ops[i] = op

\* C1: whenever AuthRepo has returned ReadWriteAccess for identifier r, the
\* authority's answer in that call listed the presented key and r's storage
\* path holds an initialized bare repository with the post-receive hook.
C1_ReadWriteImpliesAuthorizedAndReady ==
    \A c \in Callers :
        (Returned(c) /\ result[c] = ReadWriteAccess)
            => (obs[c].listed /\ fs[repoPath(c)] = Ready)

\* C2: no call returns a decision it based on seeing, without the lock, the
\* directory of a creation sequence that another call has not finished.
C2_NoDecisionFromHalfCreated ==
    \A c \in Callers :
        Returned(c) => ~(obs[c].stat = "nil" /\ obs[c].busy /\ obs[c].saw \in {Dir, Bare})

\* C3: a call whose identifier fails isValidRepoName has returned NoAccess
\* and has performed no HTTP request and no filesystem operation.
C3_InvalidNameDeniedWithoutEffects ==
    \A c \in Callers :
        (pc[c] # "idle" /\ ~isValidRepoName(repo[c]))
            => (Returned(c) /\ result[c] = NoAccess /\ obs[c] = NoObs)

C3_Witness ==
    \E c \in Callers :
        Returned(c) /\ repo[c] = <<".", ".">> /\ result[c] = NoAccess

\* C4: when the request to the authority fails in any way, or its records
\* hold no match for the key, the call returns NoAccess and has performed
\* nothing but that request: no lock, mkdir, git init or hook write.
C4_FailClosedAuthorization ==
    \A c \in Callers :
        (obs[c].http # "none" /\ ~(obs[c].http = "ok" /\ obs[c].matched))
            => (Returned(c) /\ result[c] = NoAccess /\ obs[c].ops = <<"http">>)

C4_Witness ==
    \E c, d \in Callers :
        /\ Returned(c) /\ obs[c].http = "transport" /\ result[c] = NoAccess
        /\ Returned(d) /\ obs[d].http = "ok" /\ ~obs[d].matched /\ result[d] = NoAccess

\* C5: when the key is authorized and a step of the creation sequence run by
\* this call fails (mkdir, git init or the hook write), this call returns
\* NoAccess.
C5_FailedCreationDenies ==
    \A c \in Callers :
        (Returned(c) /\ obs[c].failed # "none") => result[c] = NoAccess

C5_Witness ==
    \E c, d \in Callers :
        /\ Returned(c) /\ obs[c].matched /\ obs[c].failed = "mkdir" /\ result[c] = NoAccess
        /\ Returned(d) /\ obs[d].matched /\ obs[d].failed = "hook" /\ result[d] = NoAccess

\* C6: while no filesystem or git operation has failed and no creation for
\* another identifier has run, mkdir, git init and the hook write each run
\* at most once for an identifier, and once any caller that found the
\* identifier absent has returned, it returned ReadWriteAccess, each of the
\* three has run exactly once and the path holds a bare repository with its
\* hook.
FirstAccessors(n) ==
    { c \in Callers : Returned(c) /\ repo[c] = n /\ obs[c].stat = "ENOENT" }

C7_InitAndHookAtMostOnce ==
    /\ \A n \in ValidNames : execs[n].gitinit <= 1 /\ execs[n].hook <= 1
    /\ \A c \in Callers :
          obs[c].saw2 \in {Dir, Bare, Ready}
              => ~(Performed(c, "mkdir") \/ Performed(c, "gitinit") \/ Performed(c, "hook"))

C7_Witness ==
    \E c \in Callers :
        /\ Returned(c) /\ obs[c].saw2 \in {Dir, Bare}
        /\ extFailed
        /\ execs[repo[c]].gitinit = 1

\* C8: an existence check (in AuthRepo or under the lock) of a call with an
\* authorized key that runs while the storage path exists ends the call with
\* ReadWriteAccess at once, and leaves the filesystem and the counts of
\* mkdir, git init and hook writes as they were.
C8_ExistingPathIsNoOp ==
    [][ \A c \in Callers :
          (pc[c] \in {"stat", "locked"} /\ pc'[c] # pc[c] /\ fs[repoPath(c)] # Absent)
              => (pc'[c] = "done" /\ result'[c] = ReadWriteAccess
                  /\ fs' = fs /\ execs' = execs) ]_vars

C8_Witness ==
    \E c \in Callers :
        /\ Returned(c) /\ obs[c].saw = Ready /\ obs[c].ops = <<"http", "stat">>
        /\ result[c] = ReadWriteAccess

\* C9: a call whose existence check of the storage path failed with an
\* error other than not-found returns NoAccess.
C9_StatErrorDenies ==
    \A c \in Callers :
        (Returned(c) /\ (obs[c].stat = "EACCES" \/ obs[c].stat2 = "EACCES"))
            => result[c] = NoAccess

\* C10: a call in which the authority did not answer with a list naming the
\* key returns NoAccess, whatever earlier calls returned and whether or not
\* the repository exists.
C10_NoCachedAuthorization ==
    \A c \in Callers : (Returned(c) /\ ~obs[c].listed) => result[c] = NoAccess

C10_Witness ==
    \E c \in Callers :
        /\ Returned(c) /\ obs[c].http = "ok" /\ ~obs[c].listed
        /\ <<repo[c], key[c]>> \in granted
        /\ fs[repoPath(c)] = Ready
        /\ result[c] = NoAccess

\* ------------------------------------------- the pure functions on inputs
\* Every variable of the access gate stays as Init leaves it.
gateVars == <<pc, repo, key, result, repoMutex, fs, obs, execs, extFailed,
              granted, calls, hookScript>>

MaxProbeLen == 3

\* characters a requested name may hold: letters of both cases, a digit,
\* the three punctuation marks of the class, and characters outside it
ProbeChars == {"a", "Z", "0", ".", "_", "-", "/", " ", ";"}

Rep(ch, n) == [i \in 1..n |-> ch]

StringsUpTo(chars, n) == UNION { [1..k -> chars] : k \in 0..n }

\* short names of every shape, and names around the length limit
ProbeNames ==
    StringsUpTo(ProbeChars, MaxProbeLen)
      \cup { Rep("a", n) : n \in (MaxRepoNameLen - 1)..(MaxRepoNameLen + 1) }
      \cup { Rep("a", MaxRepoNameLen - 1) \o <<x>> : x \in {".", "/", " "} }

\* isValidRepoName(repo) is called on a name
ApplyIsValidRepoName(name) ==
    /\ probe.fn = "none"
    /\ probe' = [fn |-> "isValidRepoName", arg |-> name, out |-> isValidRepoName(name)]
    /\ UNCHANGED <<gateVars, hookRun>>

MaxRecords == 2

\* key lines an authority may hold: type and blob separated by a space or a
\* tab, followed by nothing, a space, a comment after a space or a tab, or
\* a comment of two words
ProbeRecords ==
    { k.alg \o sep \o k.blob \o rest :
        k \in Keys, sep \in {<<" ">>, <<"\t">>},
        rest \in {<<>>, <<" ">>, <<" ", "u">>, <<"\t", "u">>, <<" ", "u", " ", "v">>} }

ProbeLists == UNION { [1..n -> ProbeRecords] : n \in 0..MaxRecords }

\* isKeyAuthorized(repo, key) receives 200 and a JSON array of records
ApplyIsKeyAuthorized(records, k) ==
    /\ probe.fn = "none"
    /\ probe' = [fn |-> "isKeyAuthorized", arg |-> [body |-> records, key |-> k],
                 out |-> isKeyAuthorized([kind |-> "ok", body |-> records], k)]
    /\ UNCHANGED <<gateVars, hookRun>>

MaxPathNameLen == 2

PathNames == StringsUpTo({"a", "b", ".", "/"}, MaxPathNameLen)

\* two sessions' names are validated and joined to config.RepoDir
ApplyRepoPath(n1, n2) ==
    /\ probe.fn = "none"
    /\ probe' = [fn |-> "repoPath", arg |-> <<n1, n2>>,
                 out |-> [valid |-> <<isValidRepoName(n1), isValidRepoName(n2)>>,
                          path |-> <<filepathJoin(RepoDir, n1), filepathJoin(RepoDir, n2)>>]]
    /\ UNCHANGED <<gateVars, hookRun>>

\* one function is applied to one input; the inputs are enumerated only
\* while nothing has been applied yet
NextPure ==
    \/ probe.fn = "none" /\ \E name \in ProbeNames : ApplyIsValidRepoName(name)
    \/ probe.fn = "none" /\ \E records \in ProbeLists, k \in Keys :
                                ApplyIsKeyAuthorized(records, k)
    \/ probe.fn = "none" /\ \E n1, n2 \in PathNames : ApplyRepoPath(n1, n2)

SpecPure == Init /\ [][NextPure]_vars

\* ------------------------------------------------- the post-receive hook
\* git runs the installed script, in the bare repository's directory, with
\* one "<oldrev> <newrev> <refname>" line per updated ref on standard input.
MaxLines == 2

\* the all-zero revision that marks a deleted ref
ZeroRevLen == 40
ZeroRev == Rep("0", ZeroRevLen)

Rev1 == <<"a", "b", "c", "1", "2", "3">>
Rev2 == <<"d", "e", "f", "4", "5", "6">>
RefName == <<"r", "e", "f", "s", "/", "h", "e", "a", "d", "s", "/", "m", "a", "i", "n">>

RefLine(old, new) == old \o <<" ">> \o new \o <<" ">> \o RefName

\* a deletion, a new ref, an update, and an update to a revision of 39 zeros
RefLines ==
    { RefLine(Rev1, ZeroRev), RefLine(ZeroRev, Rev1), RefLine(Rev1, Rev2),
      RefLine(Rev1, Rep("0", ZeroRevLen - 1)) }

HookInputs == UNION { [1..n -> RefLines] : n \in 0..MaxLines }

\* repository roots the server may be configured with (GIT_SERVER_REPO_DIR)
RepoDirs == { RepoDir, << <<"d", "a", "t", "a">>, <<"r", "e", "p", "o", "s">> >> }

HookNames == { <<"a">>, <<"d", "e", "m", "o">> }

\* IFS=' ' read -r oldrev newrev refname: the second space-separated word
NewRev(line) ==
    LET w == SelectSeq(Split(line, " "), LAMBDA f : f # <<>>)
    IN IF Len(w) >= 2 THEN w[2] ELSE <<>>

\* where a path used by the script lies, relative to the server's working
\* directory, when the script runs in directory cwd
Resolve(cwd, path) == PathString(CleanInto(cwd, Split(path, "/")))

\* DEST_PATH="$BACKUP_ROOT/$REPO_NAME/${newrev}.zip"
DestPath(script, newrev) ==
    script.BACKUP_ROOT \o <<"/">> \o script.REPO_NAME \o <<"/">> \o newrev \o <<".", "z", "i", "p">>

\* a push to the repository of identifier n under root dir starts its hook
HookStart(dir, n, lines) ==
    /\ hookRun.status = "none"
    /\ hookRun' = [status |-> "running", script |-> hookScriptFor(n),
                   cwd |-> filepathJoin(dir, n), lines |-> lines, next |-> 1,
                   events |-> <<>>]
    /\ UNCHANGED <<gateVars, probe>>

\* one turn of the while loop, under set -e: a deletion is skipped; else
\* mkdir -p, git archive, then curl || echo.  A failing mkdir or git archive
\* ends the script with its status; a failing curl runs the echo.
HookLine ==
    /\ hookRun.status = "running"
    /\ hookRun.next <= Len(hookRun.lines)
    /\ LET newrev == NewRev(hookRun.lines[hookRun.next])
           dest == Resolve(hookRun.cwd, DestPath(hookRun.script, newrev))
           archive(ok) == [op |-> "archive", rev |-> newrev, dest |-> dest, ok |-> ok]
           upload(ok) == [op |-> "upload", url |-> hookRun.script.UPLOAD_URL,
                          repo |-> hookRun.script.REPO_NAME, commit |-> newrev,
                          file |-> dest, ok |-> ok]
       IN IF newrev = ZeroRev
          THEN hookRun' = [hookRun EXCEPT !.next = @ + 1]
          ELSE \/ hookRun' = [hookRun EXCEPT !.status = "failed"]
               \/ hookRun' = [hookRun EXCEPT !.status = "failed",
                                             !.events = Append(@, archive(FALSE))]
               \/ hookRun' = [hookRun EXCEPT !.next = @ + 1,
                                             !.events = @ \o <<archive(TRUE), upload(FALSE)>>]
               \/ hookRun' = [hookRun EXCEPT !.next = @ + 1,
                                             !.events = @ \o <<archive(TRUE), upload(TRUE)>>]
    /\ UNCHANGED <<gateVars, probe>>

\* read finds the end of the input: the loop and the script end with status 0
HookEnd ==
    /\ hookRun.status = "running"
    /\ hookRun.next > Len(hookRun.lines)
    /\ hookRun' = [hookRun EXCEPT !.status = "exit0"]
    /\ UNCHANGED <<gateVars, probe>>

NextHook ==
    \/ \E dir \in RepoDirs, n \in HookNames, lines \in HookInputs : HookStart(dir, n, lines)
    \/ HookLine
    \/ HookEnd

SpecHook == Init /\ [][NextHook]_vars

\* C11: isValidRepoName(id) is true exactly when id is non-empty, has at
\* most 100 characters, holds only characters of [A-Za-z0-9._-], has no two
\* adjacent dots and no slash; the name is tested as given.
NameChars == Lower \cup Upper \cup Digit \cup {".", "_", "-"}

WellFormedName(id) ==
    /\ Len(id) >= 1
    /\ Len(id) <= 100
    /\ \A i \in 1..Len(id) : id[i] \in NameChars
    /\ ~\E i \in 1..(Len(id) - 1) : id[i] = "." /\ id[i + 1] = "."
    /\ ~\E i \in 1..Len(id) : id[i] = "/"

C11_ValidIffWellFormed ==
    probe.fn = "isValidRepoName" => (probe.out <=> WellFormedName(probe.arg))

C11_Witness ==
    /\ probe.fn = "isValidRepoName"
    /\ Len(probe.arg) = 100
    /\ probe.out = TRUE

\* C12: for a 200 response with a well-formed list, isKeyAuthorized is true
\* exactly when some record's key, split at whitespace, without its last
\* token, rejoined with spaces and trimmed, equals the presented key's
\* canonical form "<type> <base64>".
RECURSIVE SplitAtWhiteSpace(_, _, _)
SplitAtWhiteSpace(line, i, cur) ==
    IF i > Len(line) THEN <<cur>>
    ELSE IF line[i] \in WhiteSpace
         THEN <<cur>> \o SplitAtWhiteSpace(line, i + 1, <<>>)
    ELSE SplitAtWhiteSpace(line, i + 1, Append(cur, line[i]))

CanonicalKey(k) == k.alg \o <<" ">> \o k.blob

WithoutLastToken(line) ==
    LET t == SplitAtWhiteSpace(line, 1, <<>>)
    IN TrimSpace(Join(SubSeq(t, 1, Len(t) - 1), " "))

C12_AuthorizedIffRecordWithoutCommentEqualsKey ==
    probe.fn = "isKeyAuthorized"
        => (probe.out <=>
              \E i \in 1..Len(probe.arg.body) :
                  WithoutLastToken(probe.arg.body[i]) = CanonicalKey(probe.arg.key))

\* C18: the storage path of every accepted identifier is a direct child of
\* the repository root, and two distinct accepted identifiers have distinct
\* storage paths.
DirectChildOfRepoDir(path) ==
    /\ Len(path) = Len(RepoDir) + 1
    /\ SubSeq(path, 1, Len(RepoDir)) = RepoDir

C18_AcceptedNamesMapInjectivelyToChildren ==
    probe.fn = "repoPath"
        => /\ \A i \in 1..2 : probe.out.valid[i] => DirectChildOfRepoDir(probe.out.path[i])
           /\ (probe.out.valid[1] /\ probe.out.valid[2] /\ probe.arg[1] # probe.arg[2])
                 => probe.out.path[1] # probe.out.path[2]

\* C13: the hook never ends with a failure status, and when it has ended
\* every line that is not a deletion has been archived, whichever archives
\* and uploads failed.
Finished == hookRun.status \in {"exit0", "failed"}

NonDeletions ==
    SelectSeq([i \in 1..Len(hookRun.lines) |-> NewRev(hookRun.lines[i])],
              LAMBDA r : r # ZeroRev)

Archived == SelectSeq(hookRun.events, LAMBDA e : e.op = "archive")

C13_BackupFailureIsNotFatal ==
    /\ hookRun.status # "failed"
    /\ Finished => Len(Archived) = Len(NonDeletions)

\* C14: when the hook has ended, what it did is, for each line that is not
\* a deletion and in input order, one archive to
\* {backupRoot}/{identifier}/{newrev}.zip followed by one upload of that
\* file with repo={identifier} and commit={newrev}; deletions did nothing.
BackupFile(n, newrev) ==
    PathString(CleanInto(<<>>, Split(BackupDir, "/") \o <<n, newrev \o <<".", "z", "i", "p">>>>))

C14_ArchiveAndUploadPerLine ==
    Finished =>
        /\ Len(hookRun.events) = 2 * Len(NonDeletions)
        /\ \A i \in 1..Len(NonDeletions) :
              LET a == hookRun.events[2 * i - 1]
                  u == hookRun.events[2 * i]
                  n == hookRun.script.REPO_NAME
              IN /\ a.op = "archive" /\ a.rev = NonDeletions[i]
                 /\ a.dest = BackupFile(n, NonDeletions[i])
                 /\ u.op = "upload" /\ u.repo = n /\ u.commit = NonDeletions[i]
                 /\ u.file = a.dest

\* ---------------------------------------------------------------- C15
\* the caller is inside createBareRepoWithHook, between the existence check
\* under the lock and the end of the hook installation
InCreation(c) == pc[c] \in {"locked", "mkdir", "gitinit", "hook"}

\* C15: at most one caller, whatever the identifiers, is between the
\* under-lock existence check and the end of the hook installation, and
\* every change of the repository tree or of an installed hook (mkdir,
\* git init, hook write) is made by a caller that holds repoMutex.
C15_ProvisioningIsMutuallyExclusive ==
    /\ [](\A c, d \in Callers : InCreation(c) /\ InCreation(d) => c = d)
    /\ [](\A c \in Callers : InCreation(c) => repoMutex = c)
    /\ [][(fs' # fs \/ hookScript' # hookScript) =>
            \E c \in Callers : /\ repoMutex = c
                               /\ pc[c] \in {"mkdir", "gitinit", "hook"}
                               /\ obs'[c].ops # obs[c].ops]_vars

\* one caller is initializing a repository under the lock while another,
\* asking for a different identifier, waits for the lock
C15_Witness ==
    \E c, d \in Callers :
        /\ pc[c] = "gitinit" /\ repoMutex = c
        /\ pc[d] = "lock" /\ repo[d] # repo[c]
        /\ fs[repoPath(c)] = Dir

\* ---------------------------------------------------------------- C16
\* one step of caller c's AuthRepo call, the wait for repoMutex excepted
Step(c) ==
    \/ Authorize(c)
    \/ StatRepoPath(c)
    \/ StatUnderLock(c)
    \/ MkdirAll(c)
    \/ GitInit(c)
    \/ createPostReceiveHook(c)

\* The authority request and every filesystem or git operation terminate,
\* and a goroutine that can run eventually does: weak fairness of each
\* caller's steps.  A goroutine blocked in repoMutex.Lock() is handed the
\* mutex once it has waited (sync.Mutex's starvation mode), however often
\* other callers take it in between: strong fairness of Lock.
FairSpec ==
    /\ Spec
    /\ \A c \in Callers : WF_vars(Step(c)) /\ SF_vars(Lock(c))

\* C16: repoMutex is never held by a caller that is outside the creation
\* sequence (it is released on every exit path), every AuthRepo call that
\* has started eventually returns a decision, and every caller waiting for
\* repoMutex eventually gets it.
C16_LockReleasedAndEveryCallReturns ==
    /\ [](\A c \in Callers : repoMutex = c => InCreation(c))
    /\ \A c \in Callers : (pc[c] \notin {"idle", "done"}) ~> (pc[c] = "done")
    /\ \A c \in Callers : (pc[c] = "lock") ~> (repoMutex = c)

\* a call whose creation sequence failed has returned with the mutex free
\* again, and another call that went through the lock has returned too
C16_Witness ==
    \E c, d \in Callers :
        /\ c # d
        /\ pc[c] = "done" /\ Performed(c, "lock") /\ obs[c].failed # "none"
        /\ pc[d] = "done" /\ Performed(d, "lock")
        /\ repoMutex = 0

\* ---------------------------------------------------------------- C17
\* the call made the step and the step did not fail
Succeeded(c, op) == Performed(c, op) /\ obs[c].failed # op

\* C17: a call is at createPostReceiveHook, or has been through it, only
\* after its identifier passed isValidRepoName, its key was found among the
\* authority's records and its mkdir and git init succeeded; so the
\* identifier rendered into any installed hook satisfies isValidRepoName
\* and is made of the validated characters only.
C17_HookOnlyAfterValidationAuthorizationAndInit ==
    /\ \A c \in Callers :
         (pc[c] = "hook" \/ Performed(c, "hook")) =>
            /\ isValidRepoName(repo[c])
            /\ obs[c].http = "ok" /\ obs[c].matched
            /\ Succeeded(c, "mkdir")
            /\ Succeeded(c, "gitinit")
    /\ \A p \in Paths :
         hookScript[p] # NoHook =>
            /\ isValidRepoName(hookScript[p].REPO_NAME)
            /\ \A i \in 1..Len(hookScript[p].REPO_NAME) :
                  hookScript[p].REPO_NAME[i] \in NameChars

\* a call has installed the hook for its identifier and returned
C17_Witness ==
    \E c \in Callers :
        /\ pc[c] = "done" /\ result[c] = ReadWriteAccess
        /\ Succeeded(c, "hook")
        /\ hookScript[repoPath(c)] = hookScriptFor(repo[c])

\* ---------------------------------------------------------------- C19
\* the unlocked existence check of the call found an entry at the path
SawExisting(c) == obs[c].saw \in {Dir, Bare, Ready}

\* C19: the existence check of an authorized call can always be made,
\* whoever holds repoMutex, and a call whose check found its storage path
\* existing has returned ReadWriteAccess at that step without ever waiting
\* for or taking repoMutex.
C19_ExistingPathNeverTouchesLock ==
    \A c \in Callers :
        /\ pc[c] = "stat" => ENABLED StatRepoPath(c)
        /\ SawExisting(c) =>
              /\ pc[c] = "done"
              /\ result[c] = ReadWriteAccess
              /\ ~Performed(c, "lock")
              /\ repoMutex # c

\* a call for an existing path has returned while another caller holds
\* repoMutex in the middle of creating a different identifier
C19_Witness ==
    \E c, d \in Callers :
        /\ SawExisting(c) /\ pc[c] = "done" /\ result[c] = ReadWriteAccess
        /\ repoMutex = d /\ pc[d] \in {"mkdir", "gitinit", "hook"}
        /\ repo[d] # repo[c]
====
